---- MODULE Spec2Model ----
(***************************************************************************)
(* Model of curate.cpp: a single-shot command-line tool that appends       *)
(* tagged URLs to inbox.tsv, classifies them with rules.tsv, archives the  *)
(* inbox and renders date-ranged digests.                                  *)
(*                                                                         *)
(* Strings are sequences of one-character strings, so that parsing,        *)
(* formatting, trimming and splitting are computed character by character  *)
(* as the code computes them.  Dates (sys_days) are integers: days since   *)
(* 1970-01-01.                                                             *)
(***************************************************************************)
EXTENDS Integers, Sequences, FiniteSets, TLC

VARIABLES
    dirs,       \* set of directories that exist on disk
    inbox,      \* inbox.tsv: Absent, or its bytes (a string)
    rules,      \* rules.tsv: Absent, or its bytes (a string)
    archives,   \* archive files: function from destination path to bytes
    outputs,    \* digest files written: function from path to content
    clock,      \* the system clock, in seconds
    pc,         \* position of the running process ("idle" between processes)
    inv,        \* the current / last invocation: argv, exit code, snapshots
    added,      \* history: the lines successfully appended by add
    arg,        \* input of a pure function under check
    res         \* result of a pure function under check

vars == <<dirs, inbox, rules, archives, outputs, clock, pc, inv, added, arg, res>>

fsvars == <<dirs, inbox, rules, archives, outputs>>

-----------------------------------------------------------------------------
(* Characters and strings                                                  *)

TAB == "\t"
NL == "\n"
CR == "\r"
SP == " "

Digits == <<"0", "1", "2", "3", "4", "5", "6", "7", "8", "9">>

IsDigit(c) == \E i \in 1..10 : Digits[i] = c

DigitVal(c) == (CHOOSE i \in 1..10 : Digits[i] = c) - 1

\* isspace in the "C" locale (the characters the model uses)
IsSpace(c) == c \in {SP, TAB, NL, CR}

\* std::stoi on a string of decimal digits
RECURSIVE stoi(_)
stoi(s) ==
    IF s = <<>> THEN 0
    ELSE 10 * stoi(SubSeq(s, 1, Len(s) - 1)) + DigitVal(s[Len(s)])

\* operator<<(int): decimal digits, no padding, '-' for negatives
RECURSIVE NatToStr(_)
NatToStr(n) ==
    IF n < 10 THEN <<Digits[n + 1]>>
    ELSE NatToStr(n \div 10) \o <<Digits[(n % 10) + 1]>>

IntToStr(n) == IF n < 0 THEN <<"-">> \o NatToStr(0 - n) ELSE NatToStr(n)

\* setw(2) << setfill('0') << unsigned
Pad2(n) == IF n < 10 THEN <<"0">> \o NatToStr(n) ELSE NatToStr(n)

RECURSIVE TrimLeft(_)
TrimLeft(s) ==
    IF s # <<>> /\ IsSpace(Head(s)) THEN TrimLeft(Tail(s)) ELSE s

RECURSIVE TrimRight(_)
TrimRight(s) ==
    IF s # <<>> /\ IsSpace(s[Len(s)])
    THEN TrimRight(SubSeq(s, 1, Len(s) - 1))
    ELSE s

trim(s) == TrimRight(TrimLeft(s))

-----------------------------------------------------------------------------
(* Calendar arithmetic of std::chrono (proleptic Gregorian calendar)       *)

\* sys_days{year/month/day}: days since 1970-01-01
DaysFromCivil(y, m, d) ==
    LET yy  == IF m <= 2 THEN y - 1 ELSE y
        era == yy \div 400
        yoe == yy - era * 400
        mp  == IF m > 2 THEN m - 3 ELSE m + 9
        doy == (153 * mp + 2) \div 5 + d - 1
        doe == yoe * 365 + yoe \div 4 - yoe \div 100 + doy
    IN  era * 146097 + doe - 719468

\* year_month_day(sys_days)
CivilFromDays(z) ==
    LET zz  == z + 719468
        era == zz \div 146097
        doe == zz - era * 146097
        yoe == (doe - doe \div 1460 + doe \div 36524 - doe \div 146096) \div 365
        doy == doe - (365 * yoe + yoe \div 4 - yoe \div 100)
        mp  == (5 * doy + 2) \div 153
        d   == doy - (153 * mp + 2) \div 5 + 1
        m   == IF mp < 10 THEN mp + 3 ELSE mp - 9
        y   == yoe + era * 400 + (IF m <= 2 THEN 1 ELSE 0)
    IN  [year |-> y, month |-> m, day |-> d]

\* weekday{z}.c_encoding(): Sun=0 ... Sat=6 (1970-01-01 was a Thursday)
WeekdayC(z) == (z + 4) % 7

Nullopt == [has |-> FALSE, val |-> 0]
Some(v) == [has |-> TRUE, val |-> v]

\* a file of the disk: absent, or its bytes
Absent == [exists |-> FALSE, data |-> <<>>]
File(bytes) == [exists |-> TRUE, data |-> bytes]
NoFiles == [p \in {} |-> <<>>]

\* the regex ^(\d{4})-(\d{2})-(\d{2})$
MatchesDateShape(s) ==
    /\ Len(s) = 10
    /\ s[5] = "-"
    /\ s[8] = "-"
    /\ \A i \in {1, 2, 3, 4, 6, 7, 9, 10} : IsDigit(s[i])

parseISODate(s) ==
    IF ~MatchesDateShape(s) THEN Nullopt
    ELSE LET y  == stoi(SubSeq(s, 1, 4))
             mo == stoi(SubSeq(s, 6, 7))
             d  == stoi(SubSeq(s, 9, 10))
         IN  IF mo < 1 \/ mo > 12 \/ d < 1 \/ d > 31 THEN Nullopt
             ELSE LET z   == DaysFromCivil(y, mo, d)
                      ymd == CivilFromDays(z)
                  IN  IF ymd.year # y \/ ymd.month # mo \/ ymd.day # d
                      THEN Nullopt
                      ELSE Some(z)

fmtDate(z) ==
    LET ymd == CivilFromDays(z)
    IN  IntToStr(ymd.year) \o <<"-">> \o Pad2(ymd.month)
            \o <<"-">> \o Pad2(ymd.day)

\* integer division of C++: truncates toward zero
TruncDiv(a, b) == IF a >= 0 THEN a \div b ELSE 0 - ((0 - a) \div b)

DaysSinceMonday(z) == IF WeekdayC(z) = 0 THEN 6 ELSE WeekdayC(z) - 1

Week1Monday(y) ==
    LET jan4 == DaysFromCivil(y, 1, 4)
    IN  jan4 - DaysSinceMonday(jan4)

isoWeekFromDate(z) ==
    LET monday   == z - DaysSinceMonday(z)
        thursday == monday + 3
        iso_year == CivilFromDays(thursday).year
        week_num == 1 + TruncDiv(monday - Week1Monday(iso_year), 7)
    IN  [year |-> iso_year, week |-> week_num,
         monday |-> monday, sunday |-> monday + 6]

\* a mutant: week w starts 7 * w days after the Monday of week 1
weekBoundsOffByOne(y, w) ==
    LET monday == Week1Monday(y) + 7 * w
    IN  [year |-> y, week |-> w, monday |-> monday, sunday |-> monday + 6]

weekBounds(y, w) ==
    LET monday == Week1Monday(y) + 7 * (w - 1)
    IN  [year |-> y, week |-> w, monday |-> monday, sunday |-> monday + 6]

\* the regex ^(\d{4})-W(\d{2})$, week in [1,53]
parseISOWeekStr(s) ==
    IF ~(/\ Len(s) = 8
         /\ s[5] = "-"
         /\ s[6] = "W"
         /\ \A i \in {1, 2, 3, 4, 7, 8} : IsDigit(s[i]))
    THEN Nullopt
    ELSE LET y == stoi(SubSeq(s, 1, 4))
             w == stoi(SubSeq(s, 7, 8))
         IN  IF w < 1 \/ w > 53 THEN Nullopt ELSE Some(<<y, w>>)

\* oss << y << "-W" << setw(2) << setfill('0') << w
fmtISOWeek(y, w) == IntToStr(y) \o <<"-", "W">> \o Pad2(w)

-----------------------------------------------------------------------------
(* Lines and columns                                                       *)

Lower == <<"a", "b", "c", "d", "e", "f", "g", "h", "i", "j", "k", "l", "m",
           "n", "o", "p", "q", "r", "s", "t", "u", "v", "w", "x", "y", "z">>
Upper == <<"A", "B", "C", "D", "E", "F", "G", "H", "I", "J", "K", "L", "M",
           "N", "O", "P", "Q", "R", "S", "T", "U", "V", "W", "X", "Y", "Z">>

\* tolower on one character
toLowerC(c) ==
    IF \E i \in 1..26 : Upper[i] = c
    THEN Lower[CHOOSE i \in 1..26 : Upper[i] = c]
    ELSE c

toLower(s) == [i \in 1..Len(s) |-> toLowerC(s[i])]

\* the positions of character c in s, in increasing order
RECURSIVE SortedSeq(_)
SortedSeq(S) ==
    IF S = {} THEN <<>>
    ELSE LET m == CHOOSE x \in S : \A y \in S : x <= y
         IN  <<m>> \o SortedSeq(S \ {m})

Positions(s, c) == SortedSeq({i \in 1..Len(s) : s[i] = c})

\* the pieces of s between occurrences of c (one more piece than occurrences)
SplitOn(s, c) ==
    LET p == Positions(s, c)
        n == Len(p)
    IN  [k \in 1..(n + 1) |->
            SubSeq(s, IF k = 1 THEN 1 ELSE p[k - 1] + 1,
                      IF k = n + 1 THEN Len(s) ELSE p[k] - 1)]

splitTabs(line) == SplitOn(line, TAB)

RECURSIVE joinTabs(_)
joinTabs(cols) ==
    IF cols = <<>> THEN <<>>
    ELSE IF Len(cols) = 1 THEN cols[1]
    ELSE cols[1] \o <<TAB>> \o joinTabs(Tail(cols))

\* the lines a while(getline(in, line)) loop reads: pieces between newlines,
\* without an empty last piece (end of file right after a newline)
GetLines(bytes) ==
    LET pieces == SplitOn(bytes, NL)
    IN  IF pieces[Len(pieces)] = <<>>
        THEN SubSeq(pieces, 1, Len(pieces) - 1)
        ELSE pieces

\* s occurs in t at offset k (0-based)
OccursAt(s, t, k) ==
    /\ k + Len(s) <= Len(t)
    /\ \A i \in 1..Len(s) : t[k + i] = s[i]

Contains(t, s) == \E k \in 0..Len(t) : OccursAt(s, t, k)

-----------------------------------------------------------------------------
(* rules.tsv and kind detection                                            *)
(*                                                                         *)
(* std::regex (ECMAScript, icase) is modelled on the patterns the model    *)
(* uses: the seven default patterns, by their meaning as a search, and     *)
(* simple patterns made of letters, digits and the wildcard ".".  A        *)
(* pattern holding "[" with no "]" makes std::regex throw regex_error.     *)

PatVideo ==
    <<"y", "o", "u", "t", "u", "b", "e", "\\", ".", "c", "o", "m", "/",
      "|", "y", "o", "u", "t", "u", "\\", ".", "b", "e", "/">>

PatTweet ==
    <<"(", "?", ":", "^", "|", "h", "t", "t", "p", "s", "?", ":", "/", "/",
      ")", "?", "(", "?", ":", "w", "w", "w", "\\", ".", ")", "?", "(",
      "?", ":", "t", "w", "i", "t", "t", "e", "r", "\\", ".", "c", "o",
      "m", "|", "x", "\\", ".", "c", "o", "m", ")", "/">>

PatPost ==
    <<"(", "?", ":", "^", "|", "h", "t", "t", "p", "s", "?", ":", "/", "/",
      ")", "?", "(", "?", ":", "w", "w", "w", "\\", ".", ")", "?", "s",
      "u", "b", "s", "t", "a", "c", "k", "\\", ".", "c", "o", "m", "/">>

PatThread ==
    <<"(", "?", ":", "^", "|", "h", "t", "t", "p", "s", "?", ":", "/", "/",
      ")", "?", "(", "?", ":", "w", "w", "w", "\\", ".", ")", "?", "r",
      "e", "d", "d", "i", "t", "\\", ".", "c", "o", "m", "/">>

PatHN ==
    <<"(", "?", ":", "^", "|", "h", "t", "t", "p", "s", "?", ":", "/", "/",
      ")", "?", "n", "e", "w", "s", "\\", ".", "y", "c", "o", "m", "b",
      "i", "n", "a", "t", "o", "r", "\\", ".", "c", "o", "m", "/">>

PatCode ==
    <<"(", "?", ":", "^", "|", "h", "t", "t", "p", "s", "?", ":", "/", "/",
      ")", "?", "(", "?", ":", "w", "w", "w", "\\", ".", ")", "?", "g",
      "i", "t", "h", "u", "b", "\\", ".", "c", "o", "m", "/">>

PatPdf ==
    <<"\\", ".", "p", "d", "f", "(", "?", ":", "$", "|", "\\", "?", ")">>

DefaultPatterns ==
    {PatVideo, PatTweet, PatPost, PatThread, PatHN, PatCode, PatPdf}

\* the bytes ensureDefaultRulesFile writes (the dash of its last comment
\* line is written here as "-")
DefaultRulesBytes ==
    <<"#", " ", "P", "e", "n", "l", "e", "s", "s", " ", "C", "u", "r", "a",
      "t", "i", "o", "n", " ", "k", "i", "n", "d", " ", "r", "u", "l", "e",
      "s", NL, "#", " ", "F", "o", "r", "m", "a", "t", ":", " ", "<", "r",
      "e", "g", "e", "x", ">", "\\", "t", "<", "k", "i", "n", "d", ">", NL,
      "#", " ", "L", "i", "n", "e", "s", " ", "b", "e", "g", "i", "n", "n",
      "i", "n", "g", " ", "w", "i", "t", "h", " ", "#", " ", "a", "r", "e",
      " ", "c", "o", "m", "m", "e", "n", "t", "s", ".", " ", "B", "l", "a",
      "n", "k", " ", "l", "i", "n", "e", "s", " ", "i", "g", "n", "o", "r",
      "e", "d", ".", NL, "#", " ", "E", "x", "a", "m", "p", "l", "e", "s",
      " ", "b", "e", "l", "o", "w", " ", "-", " ", "e", "d", "i", "t", " ",
      "a", "s", " ", "n", "e", "e", "d", "e", "d", ".", NL, NL, "y", "o",
      "u", "t", "u", "b", "e", "\\", ".", "c", "o", "m", "/", "|", "y",
      "o", "u", "t", "u", "\\", ".", "b", "e", "/", TAB, "v", "i", "d",
      "e", "o", NL, "(", "?", ":", "^", "|", "h", "t", "t", "p", "s", "?",
      ":", "/", "/", ")", "?", "(", "?", ":", "w", "w", "w", "\\", ".",
      ")", "?", "(", "?", ":", "t", "w", "i", "t", "t", "e", "r", "\\",
      ".", "c", "o", "m", "|", "x", "\\", ".", "c", "o", "m", ")", "/",
      TAB, "t", "w", "e", "e", "t", NL, "(", "?", ":", "^", "|", "h", "t",
      "t", "p", "s", "?", ":", "/", "/", ")", "?", "(", "?", ":", "w", "w",
      "w", "\\", ".", ")", "?", "s", "u", "b", "s", "t", "a", "c", "k",
      "\\", ".", "c", "o", "m", "/", TAB, "p", "o", "s", "t", NL, "(", "?",
      ":", "^", "|", "h", "t", "t", "p", "s", "?", ":", "/", "/", ")", "?",
      "(", "?", ":", "w", "w", "w", "\\", ".", ")", "?", "r", "e", "d",
      "d", "i", "t", "\\", ".", "c", "o", "m", "/", TAB, "t", "h", "r",
      "e", "a", "d", NL, "(", "?", ":", "^", "|", "h", "t", "t", "p", "s",
      "?", ":", "/", "/", ")", "?", "n", "e", "w", "s", "\\", ".", "y",
      "c", "o", "m", "b", "i", "n", "a", "t", "o", "r", "\\", ".", "c",
      "o", "m", "/", TAB, "h", "n", NL, "(", "?", ":", "^", "|", "h", "t",
      "t", "p", "s", "?", ":", "/", "/", ")", "?", "(", "?", ":", "w", "w",
      "w", "\\", ".", ")", "?", "g", "i", "t", "h", "u", "b", "\\", ".",
      "c", "o", "m", "/", TAB, "c", "o", "d", "e", NL, "\\", ".", "p", "d",
      "f", "(", "?", ":", "$", "|", "\\", "?", ")", TAB, "p", "d", "f", NL>>

StrArticle == <<"a", "r", "t", "i", "c", "l", "e">>

IsSimplePattern(p) ==
    \A i \in 1..Len(p) :
        \/ p[i] = "."
        \/ IsDigit(p[i])
        \/ \E j \in 1..26 : p[i] = Lower[j] \/ p[i] = Upper[j]

\* std::regex(p, icase | optimize) does not throw
RegexValid(p) == p \in DefaultPatterns \/ IsSimplePattern(p)

\* a simple pattern matches url at offset k, case-insensitively
SimpleMatchAt(url, p, k) ==
    /\ k + Len(p) <= Len(url)
    /\ \A i \in 1..Len(p) :
          IF p[i] = "." THEN url[k + i] \notin {NL, CR}
          ELSE toLowerC(p[i]) = toLowerC(url[k + i])

EndsWithOrBeforeQuery(u, s) ==
    \E k \in 0..Len(u) :
        /\ OccursAt(s, u, k)
        /\ (k + Len(s) = Len(u) \/ u[k + Len(s) + 1] = "?")

\* std::regex_search(url, re): the pattern matches somewhere in url
RegexSearch(url, p) ==
    LET u == toLower(url)
    IN  IF p = PatVideo
            THEN Contains(u, <<"y", "o", "u", "t", "u", "b", "e", ".", "c", "o", "m", "/">>) \/ Contains(u, <<"y", "o", "u", "t", "u", ".", "b", "e", "/">>)
        ELSE IF p = PatTweet
            THEN Contains(u, <<"t", "w", "i", "t", "t", "e", "r", ".", "c", "o", "m", "/">>) \/ Contains(u, <<"x", ".", "c", "o", "m", "/">>)
        ELSE IF p = PatPost THEN Contains(u, <<"s", "u", "b", "s", "t", "a", "c", "k", ".", "c", "o", "m", "/">>)
        ELSE IF p = PatThread THEN Contains(u, <<"r", "e", "d", "d", "i", "t", ".", "c", "o", "m", "/">>)
        ELSE IF p = PatHN THEN Contains(u, <<"n", "e", "w", "s", ".", "y", "c", "o", "m", "b", "i", "n", "a", "t", "o", "r", ".", "c", "o", "m", "/">>)
        ELSE IF p = PatCode THEN Contains(u, <<"g", "i", "t", "h", "u", "b", ".", "c", "o", "m", "/">>)
        ELSE IF p = PatPdf THEN EndsWithOrBeforeQuery(u, <<".", "p", "d", "f">>)
        ELSE \E k \in 0..Len(url) : SimpleMatchAt(url, p, k)

\* ensureDefaultRulesFile: an absent rules.tsv is written with the defaults
ensureDefaultRulesFile(f) == IF f.exists THEN f ELSE File(DefaultRulesBytes)

\* the loop body of loadRules, over the lines left to read
RECURSIVE LoadRulesFrom(_)
LoadRulesFrom(lines) ==
    IF lines = <<>> THEN <<>>
    ELSE LET s    == trim(Head(lines))
             cols == splitTabs(s)
             rest == LoadRulesFrom(Tail(lines))
         IN  IF s = <<>> \/ s[1] = "#" THEN rest
             ELSE IF Len(cols) < 2 THEN rest
             ELSE IF ~RegexValid(cols[1]) THEN rest
             ELSE <<[re |-> cols[1], kind |-> cols[2]]>> \o rest

\* loadRules, reading the file ensureDefaultRulesFile has left
loadRules(f) == LoadRulesFrom(GetLines(ensureDefaultRulesFile(f).data))

\* a mutant: the last matching rule wins
RECURSIVE detectKindLast(_, _)
detectKindLast(url, RULES) ==
    IF RULES = <<>> THEN StrArticle
    ELSE LET r == RULES[Len(RULES)]
         IN  IF RegexSearch(url, r.re) THEN r.kind
             ELSE detectKindLast(url, SubSeq(RULES, 1, Len(RULES) - 1))

\* detectKind: the loop over RULES, which loadRules has filled
RECURSIVE detectKind(_, _)
detectKind(url, RULES) ==
    IF RULES = <<>> THEN StrArticle
    ELSE IF RegexSearch(url, Head(RULES).re) THEN Head(RULES).kind
    ELSE detectKind(url, Tail(RULES))

-----------------------------------------------------------------------------
(* The record store: inbox.tsv                                             *)

StrLink == <<"l", "i", "n", "k">>

\* a mutant: a row with a bad date ends the load
RECURSIVE LoadInboxAbort(_)
LoadInboxAbort(lines) ==
    IF lines = <<>> THEN <<>>
    ELSE LET line == Head(lines)
             cols == splitTabs(line)
             dopt == parseISODate(trim(cols[1]))
             rest == LoadInboxAbort(Tail(lines))
         IN  IF trim(line) = <<>> THEN rest
             ELSE IF ~dopt.has THEN <<>>
             ELSE <<[date  |-> dopt.val,
                     kind  |-> IF Len(cols) > 1 THEN cols[2] ELSE StrLink,
                     url   |-> IF Len(cols) > 2 THEN cols[3] ELSE <<>>,
                     title |-> IF Len(cols) > 3 THEN cols[4] ELSE <<>>,
                     tags  |-> IF Len(cols) > 4 THEN cols[5] ELSE <<>>]>>
                  \o rest

\* one pass of the loop of loadInbox, over the lines left to read
\* (splitTabs always returns at least one column, so the date is cols[0])
RECURSIVE LoadInboxFrom(_)
LoadInboxFrom(lines) ==
    IF lines = <<>> THEN <<>>
    ELSE LET line == Head(lines)
             cols == splitTabs(line)
             dopt == parseISODate(trim(cols[1]))
             rest == LoadInboxFrom(Tail(lines))
         IN  IF trim(line) = <<>> THEN rest
             ELSE IF ~dopt.has THEN rest
             ELSE <<[date  |-> dopt.val,
                     kind  |-> IF Len(cols) > 1 THEN cols[2] ELSE StrLink,
                     url   |-> IF Len(cols) > 2 THEN cols[3] ELSE <<>>,
                     title |-> IF Len(cols) > 3 THEN cols[4] ELSE <<>>,
                     tags  |-> IF Len(cols) > 4 THEN cols[5] ELSE <<>>]>>
                  \o rest

loadInbox(f) == IF ~f.exists THEN <<>> ELSE LoadInboxFrom(GetLines(f.data))

\* the bytes appendInbox writes for record r
RecLine(r) ==
    joinTabs(<<fmtDate(r.date), r.kind, r.url, r.title, r.tags>>) \o <<NL>>

-----------------------------------------------------------------------------
(* Tags                                                                    *)

\* splitTags: the tokens operator>> extracts, whitespace-delimited
RECURSIVE splitTags(_)
splitTags(s) ==
    LET t == TrimLeft(s)
    IN  IF t = <<>> THEN <<>>
        ELSE LET stops == {i \in 1..Len(t) : IsSpace(t[i])}
                 n == IF stops = {} THEN Len(t)
                      ELSE (CHOOSE i \in stops : \A j \in stops : i <= j) - 1
             IN  <<SubSeq(t, 1, n)>> \o splitTags(SubSeq(t, n + 1, Len(t)))

RECURSIVE JoinSpaces(_)
JoinSpaces(ts) ==
    IF ts = <<>> THEN <<>>
    ELSE IF Len(ts) = 1 THEN ts[1]
    ELSE ts[1] \o <<SP>> \o JoinSpaces(Tail(ts))

\* the loop of normalizeTagsForStorage: cleaned so far, raw tokens left
RECURSIVE CleanTags(_, _)
CleanTags(cleaned, raw) ==
    IF raw = <<>> THEN cleaned
    ELSE LET t0 == trim(Head(raw))
             t  == IF t0 # <<>> /\ t0[1] # "#" THEN <<"#">> \o t0 ELSE t0
         IN  IF t0 = <<>> THEN CleanTags(cleaned, Tail(raw))
             ELSE IF \E i \in 1..Len(cleaned) : cleaned[i] = t
                  THEN CleanTags(cleaned, Tail(raw))
             ELSE CleanTags(Append(cleaned, t), Tail(raw))

normalizeTagsForStorage(raw) == JoinSpaces(CleanTags(<<>>, raw))

-----------------------------------------------------------------------------
(* Filtering                                                               *)

InRange(r, a, b) == r.date >= a /\ r.date <= b

\* the orders std::sort may leave: it orders by date and promises nothing
\* about records of equal date
SortedByDate(s) ==
    {p \in {[i \in 1..Len(s) |-> s[f[i]]] : f \in Permutations(1..Len(s))} :
        \A i \in 1..(Len(p) - 1) : p[i].date <= p[i + 1].date}

\* a mutant: the lower bound is exclusive
filterExclusiveStart(all, a, b) ==
    SortedByDate(SelectSeq(all, LAMBDA r : r.date > a /\ r.date <= b))

\* filterByDateRange: the results it may return
filterByDateRange(all, a, b) ==
    SortedByDate(SelectSeq(all, LAMBDA r : InRange(r, a, b)))

-----------------------------------------------------------------------------
(* Rendering: markdown                                                     *)

\* the em dash of the digest lines, kept as one character
EmDash == "~"

\* the characters of tags in the order of their codes (std::string compares
\* unsigned chars)
CharOrder ==
    <<TAB, NL, CR, SP, "\"", "#", "(", ")", "*", "-", ".", "/">> \o Digits
        \o <<":", "<", "=", ">", "?">> \o Upper \o <<"[", "]", "_">> \o Lower
        \o <<EmDash>>

\* std::string operator<, the order of the keys of a std::map<string, ...>
RECURSIVE StrLess(_, _)
StrLess(a, b) ==
    IF b = <<>> THEN FALSE
    ELSE IF a = <<>> THEN TRUE
    ELSE IF Head(a) # Head(b)
         THEN LET CharCode(c) == CHOOSE i \in 1..Len(CharOrder) : CharOrder[i] = c
              IN  CharCode(Head(a)) < CharCode(Head(b))
    ELSE StrLess(Tail(a), Tail(b))

IsUpperC(c) == \E i \in 1..26 : Upper[i] = c
IsAlphaC(c) == IsUpperC(c) \/ \E i \in 1..26 : Lower[i] = c

\* toupper on one character
toUpperC(c) ==
    IF \E i \in 1..26 : Lower[i] = c
    THEN Upper[CHOOSE i \in 1..26 : Lower[i] = c]
    ELSE c

isAllCapsWord(s) ==
    /\ \E i \in 1..Len(s) : IsAlphaC(s[i])
    /\ \A i \in 1..Len(s) : IsAlphaC(s[i]) => IsUpperC(s[i])

normalizeTagDisplayOne(t0) ==
    LET t1 == trim(t0)
        hadHash == t1 # <<>> /\ t1[1] = "#"
        t == IF hadHash THEN Tail(t1) ELSE t1
        hash == IF hadHash THEN <<"#">> ELSE <<>>
    IN  IF t1 = <<>> THEN t1
        ELSE IF isAllCapsWord(t) THEN hash \o t
        ELSE IF t = <<>> THEN hash
        ELSE hash \o <<toUpperC(t[1])>> \o Tail(t)

\* regex_search of (?:https?://)?([^/]+), icase, from the start of u: the
\* leftmost match, with the scheme taken when a host follows it
RECURSIVE DomainFrom(_)
DomainFrom(u) ==
    LET StrHttp == <<"h", "t", "t", "p", ":", "/", "/">>
        StrHttps == <<"h", "t", "t", "p", "s", ":", "/", "/">>
        \* the first run of characters other than "/" in x
        FirstSegment(x) ==
            LET slashes == {i \in 1..Len(x) : x[i] = "/"}
            IN  IF slashes = {} THEN x
                ELSE SubSeq(x, 1,
                        (CHOOSE i \in slashes : \A j \in slashes : i <= j) - 1)
        scheme == IF OccursAt(StrHttps, toLower(u), 0) THEN Len(StrHttps)
                  ELSE IF OccursAt(StrHttp, toLower(u), 0) THEN Len(StrHttp)
                  ELSE 0
        rest == SubSeq(u, scheme + 1, Len(u))
    IN  IF u = <<>> THEN Nullopt
        ELSE IF scheme > 0 /\ rest # <<>> /\ rest[1] # "/"
        THEN Some(FirstSegment(rest))
        ELSE IF u[1] # "/" THEN Some(FirstSegment(u))
        ELSE DomainFrom(Tail(u))

urlDomain(url) == IF DomainFrom(url).has THEN DomainFrom(url).val ELSE url

SepDash == <<SP, EmDash, SP>>

\* recLineMarkdown: - [domain](url) -- *kind* -- Title -- #Tag1 #Tag2
recLineMarkdown(r) ==
    LET t == trim(r.title)
        tags == splitTags(r.tags)
    IN  <<"-", SP, "[">> \o urlDomain(r.url) \o <<"]", "(">> \o r.url
            \o <<")">> \o SepDash \o <<"*">> \o r.kind \o <<"*">>
            \o (IF t # <<>> THEN SepDash \o t ELSE <<>>)
            \o (IF tags # <<>> THEN SepDash \o JoinSpaces(
                    [k \in 1..Len(tags) |-> normalizeTagDisplayOne(tags[k])])
                ELSE <<>>)

\* the first loop of renderGroupedByTagsMarkdown: byTag, a function from
\* display tag to the indices of the rows pushed under it, after the display
\* tags left of row i (from i on)
RECURSIVE PushTags(_, _, _)
PushTags(byTag, i, tags) ==
    IF tags = <<>> THEN byTag
    ELSE LET disp == normalizeTagDisplayOne(Head(tags))
             list == IF disp \in DOMAIN byTag THEN byTag[disp] ELSE <<>>
         IN  IF disp = <<>> THEN PushTags(byTag, i, Tail(tags))
             ELSE PushTags([k \in DOMAIN byTag \cup {disp} |->
                                IF k = disp THEN Append(list, i) ELSE byTag[k]],
                           i, Tail(tags))

RECURSIVE GroupRows(_, _, _)
GroupRows(byTag, rows, i) ==
    IF i > Len(rows) THEN byTag
    ELSE GroupRows(PushTags(byTag, i, splitTags(rows[i].tags)), rows, i + 1)

\* the keys of a std::map in iteration order
RECURSIVE SortedKeys(_)
SortedKeys(K) ==
    IF K = {} THEN <<>>
    ELSE LET k == CHOOSE x \in K : \A y \in K \ {x} : StrLess(x, y)
         IN  <<k>> \o SortedKeys(K \ {k})

RECURSIVE LinesOfRows(_, _)
LinesOfRows(rows, list) ==
    IF list = <<>> THEN <<>>
    ELSE recLineMarkdown(rows[Head(list)]) \o <<NL>>
            \o LinesOfRows(rows, Tail(list))

StrByTag == <<"#", "#", SP, "B", "y", SP, "T", "a", "g">>
StrH3 == <<"#", "#", "#", SP>>
StrNoTags == <<"(", "N", "o", SP, "t", "a", "g", "s", SP, "i", "n", SP, "r", "a", "n", "g", "e", ")">>

\* the second loop of renderGroupedByTagsMarkdown, over the keys left
RECURSIVE EmitGroups(_, _, _)
EmitGroups(byTag, rows, keys) ==
    IF keys = <<>> THEN <<>>
    ELSE StrH3 \o Head(keys) \o <<NL>>
            \o LinesOfRows(rows, byTag[Head(keys)]) \o <<NL>>
            \o EmitGroups(byTag, rows, Tail(keys))

renderGroupedByTagsMarkdown(rows) ==
    LET byTag == GroupRows([k \in {} |-> <<>>], rows, 1)
    IN  StrByTag \o <<NL, NL>>
            \o EmitGroups(byTag, rows, SortedKeys(DOMAIN byTag))
            \o (IF DOMAIN byTag = {} THEN StrNoTags \o <<NL>> ELSE <<>>)

-----------------------------------------------------------------------------
(* Rendering: markdown to HTML                                             *)

\* what mdToHtml writes before the first line
HtmlPrefix ==
    <<"<", "!", "d", "o", "c", "t", "y", "p", "e", SP, "h", "t", "m", "l",
      ">", "<", "h", "t", "m", "l", ">", "<", "m", "e", "t", "a", SP, "c",
      "h", "a", "r", "s", "e", "t", "=", "\"", "u", "t", "f", "-", "8",
      "\"", ">", "<", "m", "e", "t", "a", SP, "n", "a", "m", "e", "=",
      "\"", "v", "i", "e", "w", "p", "o", "r", "t", "\"", SP, "c", "o",
      "n", "t", "e", "n", "t", "=", "\"", "w", "i", "d", "t", "h", "=",
      "d", "e", "v", "i", "c", "e", "-", "w", "i", "d", "t", "h", ",", "i",
      "n", "i", "t", "i", "a", "l", "-", "s", "c", "a", "l", "e", "=", "1",
      "\"", ">", "<", "t", "i", "t", "l", "e", ">", "D", "i", "g", "e",
      "s", "t", "<", "/", "t", "i", "t", "l", "e", ">", "<", "s", "t", "y",
      "l", "e", ">", "b", "o", "d", "y", "{", "m", "a", "x", "-", "w", "i",
      "d", "t", "h", ":", "8", "2", "0", "p", "x", ";", "m", "a", "r", "g",
      "i", "n", ":", "2", "r", "e", "m", SP, "a", "u", "t", "o", ";", "p",
      "a", "d", "d", "i", "n", "g", ":", "0", SP, "1", "r", "e", "m", ";",
      "f", "o", "n", "t", ":", "1", "6", "p", "x", "/", "1", ".", "5", SP,
      "s", "y", "s", "t", "e", "m", "-", "u", "i", ",", "S", "e", "g", "o",
      "e", SP, "U", "I", ",", "R", "o", "b", "o", "t", "o", ",", "H", "e",
      "l", "v", "e", "t", "i", "c", "a", ",", "A", "r", "i", "a", "l", ",",
      "s", "a", "n", "s", "-", "s", "e", "r", "i", "f", "}", "c", "o", "d",
      "e", ",", "p", "r", "e", "{", "f", "o", "n", "t", ":", "1", "3", "p",
      "x", SP, "u", "i", "-", "m", "o", "n", "o", "s", "p", "a", "c", "e",
      ",", "C", "o", "n", "s", "o", "l", "a", "s", ",", "M", "e", "n", "l",
      "o", ",", "m", "o", "n", "o", "s", "p", "a", "c", "e", "}", "h", "1",
      ",", "h", "2", ",", "h", "3", "{", "l", "i", "n", "e", "-", "h", "e",
      "i", "g", "h", "t", ":", "1", ".", "2", "}", "u", "l", "{", "p", "a",
      "d", "d", "i", "n", "g", "-", "l", "e", "f", "t", ":", "1", ".", "2",
      "r", "e", "m", "}", "<", "/", "s", "t", "y", "l", "e", ">", "<", "b",
      "o", "d", "y", ">">>

\* the conversion state of mdToHtml: the output so far and inList
flushList(st) ==
    IF st.inList THEN [out |-> st.out \o <<"<", "/", "u", "l", ">">>, inList |-> FALSE] ELSE st

\* the first index from i on at which x holds c, 0 when there is none
IndexFrom(x, c, i) ==
    LET at == {n \in i..Len(x) : x[n] = c}
    IN  IF at = {} THEN 0 ELSE CHOOSE n \in at : \A k \in at : n <= k

\* regex_replace of \[([^\]]+)\]\(([^)]+)\) by <a href="$2" target="_blank">$1</a>
RECURSIVE ReplaceLinks(_)
ReplaceLinks(x) ==
    LET j == IndexFrom(x, "]", 2)
        k == IF j > 0 THEN IndexFrom(x, ")", j + 2) ELSE 0
    IN  IF x = <<>> THEN <<>>
        ELSE IF x[1] = "[" /\ j > 2 /\ j < Len(x) /\ x[j + 1] = "(" /\ k > j + 2
        THEN <<"<", "a", SP, "h", "r", "e", "f", "=", "\"">> \o SubSeq(x, j + 2, k - 1)
                \o <<"\"", SP, "t", "a", "r", "g", "e", "t", "=", "\"", "_", "b", "l", "a", "n", "k", "\"", ">">>
                \o SubSeq(x, 2, j - 1) \o <<"<", "/", "a", ">">>
                \o ReplaceLinks(SubSeq(x, k + 1, Len(x)))
        ELSE <<x[1]>> \o ReplaceLinks(Tail(x))

\* regex_replace of \*([^*]+)\* by <em>$1</em>
RECURSIVE ReplaceEm(_)
ReplaceEm(x) ==
    LET j == IndexFrom(x, "*", 2)
    IN  IF x = <<>> THEN <<>>
        ELSE IF x[1] = "*" /\ j > 2
        THEN <<"<", "e", "m", ">">> \o SubSeq(x, 2, j - 1) \o <<"<", "/", "e", "m", ">">>
                \o ReplaceEm(SubSeq(x, j + 1, Len(x)))
        ELSE <<x[1]>> \o ReplaceEm(Tail(x))

convert(x) == ReplaceEm(ReplaceLinks(x))

\* the body of the getline loop with every flushList left out
HtmlStepNoFlush(st, line) ==
    LET s == trim(line)
        Emit(open, body, close) ==
            [out |-> st.out \o open \o body \o close, inList |-> st.inList]
    IN  IF OccursAt(<<"#", SP>>, s, 0)
        THEN Emit(<<"<", "h", "1", ">">>, SubSeq(s, 3, Len(s)), <<"<", "/", "h", "1", ">">>)
        ELSE IF OccursAt(<<"#", "#", SP>>, s, 0)
        THEN Emit(<<"<", "h", "2", ">">>, SubSeq(s, 4, Len(s)), <<"<", "/", "h", "2", ">">>)
        ELSE IF OccursAt(<<"#", "#", "#", SP>>, s, 0)
        THEN Emit(<<"<", "h", "3", ">">>, SubSeq(s, 5, Len(s)), <<"<", "/", "h", "3", ">">>)
        ELSE IF OccursAt(<<"-", SP>>, s, 0)
        THEN [out |-> st.out \o (IF ~st.inList THEN <<"<", "u", "l", ">">> ELSE <<>>)
                        \o <<"<", "l", "i", ">">> \o convert(SubSeq(s, 3, Len(s)))
                        \o <<"<", "/", "l", "i", ">">>,
              inList |-> TRUE]
        ELSE Emit(<<"<", "p", ">">>, convert(s), <<"<", "/", "p", ">">>)

\* the body of the getline loop of mdToHtml on one line
HtmlStep(st, line) ==
    LET s == trim(line)
        Emit(open, body, close) ==
            [out |-> flushList(st).out \o open \o body \o close,
             inList |-> FALSE]
    IN  IF OccursAt(<<"#", SP>>, s, 0)
        THEN Emit(<<"<", "h", "1", ">">>, SubSeq(s, 3, Len(s)), <<"<", "/", "h", "1", ">">>)
        ELSE IF OccursAt(<<"#", "#", SP>>, s, 0)
        THEN Emit(<<"<", "h", "2", ">">>, SubSeq(s, 4, Len(s)), <<"<", "/", "h", "2", ">">>)
        ELSE IF OccursAt(<<"#", "#", "#", SP>>, s, 0)
        THEN Emit(<<"<", "h", "3", ">">>, SubSeq(s, 5, Len(s)), <<"<", "/", "h", "3", ">">>)
        ELSE IF OccursAt(<<"-", SP>>, s, 0)
        THEN [out |-> st.out \o (IF ~st.inList THEN <<"<", "u", "l", ">">> ELSE <<>>)
                        \o <<"<", "l", "i", ">">> \o convert(SubSeq(s, 3, Len(s)))
                        \o <<"<", "/", "l", "i", ">">>,
              inList |-> TRUE]
        ELSE IF s = <<>> THEN Emit(<<"<", "p", ">">>, <<>>, <<"<", "/", "p", ">">>)
        ELSE Emit(<<"<", "p", ">">>, convert(s), <<"<", "/", "p", ">">>)

RECURSIVE HtmlLoop(_, _)
HtmlLoop(st, lines) ==
    IF lines = <<>> THEN st
    ELSE HtmlLoop(HtmlStep(st, Head(lines)), Tail(lines))

mdToHtml(md) ==
    flushList(HtmlLoop([out |-> HtmlPrefix, inList |-> FALSE],
                       GetLines(md))).out
        \o <<"<", "/", "b", "o", "d", "y", ">", "<", "/", "h", "t", "m", "l", ">">>

-----------------------------------------------------------------------------
(* Command line: parseCLI                                                  *)
(*                                                                         *)
(* argv[1] is the command (the model leaves the program name out), so the  *)
(* code's argv[i] is argv[i] here and argc is Len(argv) + 1.               *)

CmdAddStr == <<"a", "d", "d">>
CmdDigestStr == <<"d", "i", "g", "e", "s", "t">>
CmdClearStr == <<"c", "l", "e", "a", "r", "-", "i", "n", "b", "o", "x">>
CmdListStr == <<"l", "i", "s", "t">>
CmdHelpStr == <<"h", "e", "l", "p">>
OptH == <<"-", "h">>
OptHelp == <<"-", "-", "h", "e", "l", "p">>
OptTitle == <<"-", "-", "t", "i", "t", "l", "e">>
OptDate == <<"-", "-", "d", "a", "t", "e">>
OptGt == <<"-", "g", "t">>
OptGroupTags == <<"-", "-", "g", "r", "o", "u", "p", "-", "t", "a", "g", "s">>
OptTagsOnly == <<"-", "-", "t", "a", "g", "s", "-", "o", "n", "l", "y">>
OptPd == <<"-", "p", "d">>
OptNoHeader == <<"-", "-", "n", "o", "-", "h", "e", "a", "d", "e", "r">>
OptWeek == <<"-", "-", "w", "e", "e", "k">>
OptStart == <<"-", "-", "s", "t", "a", "r", "t">>
OptEnd == <<"-", "-", "e", "n", "d">>
OptO == <<"-", "o">>
OptArchiveDir == <<"-", "-", "a", "r", "c", "h", "i", "v", "e", "-", "d", "i", "r">>
OptLimit == <<"-", "-", "l", "i", "m", "i", "t">>
OptSince == <<"-", "-", "s", "i", "n", "c", "e">>
OptUntil == <<"-", "-", "u", "n", "t", "i", "l">>
StrDash == <<"-">>

DefaultArgs ==
    [cmd |-> <<>>,
     url |-> <<>>, addTags |-> <<>>, addTitle |-> <<>>, addDateISO |-> Nullopt,
     groupTags |-> FALSE, tagsOnly |-> FALSE, pd |-> FALSE, noHeader |-> FALSE,
     week |-> Nullopt, start |-> Nullopt, end |-> Nullopt, outPath |-> <<>>,
     archiveDir |-> <<>>,
     limit |-> Nullopt, since |-> Nullopt, until |-> Nullopt]

\* parseCLI ended the process: exit(code), or nullopt and main returns 2
Exited(code) == [done |-> TRUE, code |-> code, args |-> DefaultArgs]
\* parseCLI returned the arguments
Parsed(a) == [done |-> FALSE, code |-> 0, args |-> a]

\* exit status of a process ended by std::terminate (128 + SIGABRT)
ExitAbort == 128 + 6

\* std::stoi throws std::invalid_argument: no digit at the start (the model
\* passes no signs and no leading blanks)
StoiThrows(s) == s = <<>> \/ ~IsDigit(s[1])

\* std::stoi: the value of the leading digits
RECURSIVE LeadingDigits(_)
LeadingDigits(s) ==
    IF s = <<>> \/ ~IsDigit(Head(s)) THEN <<>>
    ELSE <<Head(s)>> \o LeadingDigits(Tail(s))

\* the loop of the add branch, from argv[i]
RECURSIVE ParseAdd(_, _, _)
ParseAdd(argv, i, a) ==
    IF i > Len(argv) THEN Parsed(a)
    ELSE IF argv[i] = OptTitle THEN
        IF i + 1 > Len(argv) THEN Exited(2)
        ELSE ParseAdd(argv, i + 2, [a EXCEPT !.addTitle = argv[i + 1]])
    ELSE IF argv[i] = OptDate THEN
        IF i + 1 > Len(argv) THEN Exited(2)
        ELSE LET p == parseISODate(argv[i + 1])
             IN  IF ~p.has THEN Exited(2)
                 ELSE ParseAdd(argv, i + 2,
                        [a EXCEPT !.addDateISO = Some(fmtDate(p.val))])
    ELSE ParseAdd(argv, i + 1,
            [a EXCEPT !.addTags = Append(a.addTags, argv[i])])

\* the loop of the digest branch, from argv[i]
RECURSIVE ParseDigest(_, _, _)
ParseDigest(argv, i, a) ==
    IF i > Len(argv) THEN Parsed(a)
    ELSE IF argv[i] \in {OptGt, OptGroupTags} THEN
        ParseDigest(argv, i + 1, [a EXCEPT !.groupTags = TRUE])
    ELSE IF argv[i] = OptTagsOnly THEN
        ParseDigest(argv, i + 1, [a EXCEPT !.tagsOnly = TRUE])
    ELSE IF argv[i] = OptPd THEN
        ParseDigest(argv, i + 1, [a EXCEPT !.pd = TRUE])
    ELSE IF argv[i] = OptNoHeader THEN
        ParseDigest(argv, i + 1, [a EXCEPT !.noHeader = TRUE])
    ELSE IF argv[i] = OptWeek THEN
        IF i + 1 > Len(argv) THEN Exited(2)
        ELSE LET w == parseISOWeekStr(argv[i + 1])
             IN  IF ~w.has THEN Exited(2)
                 ELSE ParseDigest(argv, i + 2, [a EXCEPT !.week = w])
    ELSE IF argv[i] = OptStart THEN
        IF i + 1 > Len(argv) THEN Exited(2)
        ELSE LET p == parseISODate(argv[i + 1])
             IN  IF ~p.has THEN Exited(2)
                 ELSE ParseDigest(argv, i + 2, [a EXCEPT !.start = p])
    ELSE IF argv[i] = OptEnd THEN
        IF i + 1 > Len(argv) THEN Exited(2)
        ELSE LET p == parseISODate(argv[i + 1])
             IN  IF ~p.has THEN Exited(2)
                 ELSE ParseDigest(argv, i + 2, [a EXCEPT !.end = p])
    ELSE IF argv[i] = OptO THEN
        IF i + 1 > Len(argv) THEN Exited(2)
        ELSE ParseDigest(argv, i + 2, [a EXCEPT !.outPath = argv[i + 1]])
    ELSE Exited(2)

\* the loop of the clear-inbox branch, from argv[i]
RECURSIVE ParseClear(_, _, _)
ParseClear(argv, i, a) ==
    IF i > Len(argv) THEN Parsed(a)
    ELSE IF argv[i] = OptArchiveDir THEN
        IF i + 1 > Len(argv) THEN Exited(2)
        ELSE ParseClear(argv, i + 2, [a EXCEPT !.archiveDir = argv[i + 1]])
    ELSE Exited(2)

\* the loop of the list branch, from argv[i]
RECURSIVE ParseList(_, _, _)
ParseList(argv, i, a) ==
    IF i > Len(argv) THEN Parsed(a)
    ELSE IF argv[i] = OptLimit THEN
        IF i + 1 > Len(argv) THEN Exited(2)
        ELSE IF StoiThrows(argv[i + 1]) THEN Exited(ExitAbort)
        ELSE ParseList(argv, i + 2,
                [a EXCEPT !.limit = Some(stoi(LeadingDigits(argv[i + 1])))])
    ELSE IF argv[i] = OptSince THEN
        IF i + 1 > Len(argv) THEN Exited(2)
        ELSE LET p == parseISODate(argv[i + 1])
             IN  IF ~p.has THEN Exited(2)
                 ELSE ParseList(argv, i + 2, [a EXCEPT !.since = p])
    ELSE IF argv[i] = OptUntil THEN
        IF i + 1 > Len(argv) THEN Exited(2)
        ELSE LET p == parseISODate(argv[i + 1])
             IN  IF ~p.has THEN Exited(2)
                 ELSE ParseList(argv, i + 2, [a EXCEPT !.until = p])
    ELSE Exited(2)

parseCLI(argv) ==
    IF Len(argv) < 1 THEN Exited(2)
    ELSE LET a == [DefaultArgs EXCEPT !.cmd = argv[1]]
         IN  IF a.cmd = CmdAddStr THEN
                 IF Len(argv) < 2 THEN Exited(2)
                 ELSE ParseAdd(argv, 3, [a EXCEPT !.url = argv[2]])
             ELSE IF a.cmd = CmdDigestStr THEN ParseDigest(argv, 2, a)
             ELSE IF a.cmd = CmdClearStr THEN ParseClear(argv, 2, a)
             ELSE IF a.cmd = CmdListStr THEN ParseList(argv, 2, a)
             ELSE IF a.cmd \in {CmdHelpStr, OptH, OptHelp} THEN Exited(0)
             ELSE Exited(2)

-----------------------------------------------------------------------------
(* Files                                                                   *)

DirHome == <<".">>
DirTemplates == <<"t", "e", "m", "p", "l", "a", "t", "e", "s">>
DirDigests == <<"d", "i", "g", "e", "s", "t", "s">>
DirArchive == <<"a", "r", "c", "h", "i", "v", "e">>

\* the directories main creates on every run
MainDirs == {DirHome, DirTemplates, DirDigests}

\* the disk before the first run: nothing exists yet
FreshDisk ==
    /\ dirs = {}
    /\ inbox = Absent
    /\ rules = Absent
    /\ archives = NoFiles
    /\ outputs = NoFiles

Disk == [dirs |-> dirs, inbox |-> inbox, rules |-> rules,
         archives |-> archives, outputs |-> outputs]

NoDest == [dir |-> <<>>, ts |-> -1]

\* no process has run yet
NoInv ==
    [n |-> 0, argv |-> <<>>, exit |-> -1, pre |-> <<>>, rec |-> Nullopt,
     snap |-> <<>>, dest |-> NoDest, out |-> <<>>]

\* what a check of a pure function leaves alone
Idle ==
    /\ clock = 0
    /\ inv = NoInv
    /\ added = <<>>

\* f with the file at path p holding c
WithFile(f, p, c) ==
    [q \in DOMAIN f \cup {p} |-> IF q = p THEN c ELSE f[q]]

-----------------------------------------------------------------------------
(* Date parse / format: parseISODate then fmtDate on a candidate string    *)

MaxMonthIn == 13
MaxDayIn == 32
YearsIn == {0, 999, 1000, 1970, 2023, 2024, 9999}

\* a four-digit year as the user types it
Year4(n) == [i \in 1..(4 - Len(NatToStr(n))) |-> "0"] \o NatToStr(n)

DateStrings ==
    {Year4(y) \o <<"-">> \o Pad2(m) \o <<"-">> \o Pad2(d) :
        y \in YearsIn, m \in 0..MaxMonthIn, d \in 0..MaxDayIn}

InitDate ==
    /\ FreshDisk /\ Idle
    /\ arg \in DateStrings
    /\ pc = "start"
    /\ res = [parsed |-> Nullopt, text |-> <<>>]

DoParse ==
    /\ pc = "start"
    /\ res' = [res EXCEPT !.parsed = parseISODate(arg)]
    /\ pc' = "parsed"
    /\ UNCHANGED <<fsvars, clock, inv, added, arg>>

DoFormat ==
    /\ pc = "parsed"
    /\ res.parsed.has
    /\ res' = [res EXCEPT !.text = fmtDate(res.parsed.val)]
    /\ pc' = "formatted"
    /\ UNCHANGED <<fsvars, clock, inv, added, arg>>

NextDate == DoParse \/ DoFormat

SpecDate == InitDate /\ [][NextDate]_vars

\* C4: for every string s of the form YYYY-MM-DD that parseISODate accepts,
\* fmtDate(parseISODate(s)) = s: the year comes back as four zero-padded
\* digits, the month and the day as two.
C4_RoundTrip == pc = "formatted" => res.text = arg

-----------------------------------------------------------------------------
(* ISO weeks: isoWeekFromDate then weekBounds on its (year, week)          *)

WeekSpanDays == 2300
WeekBase == DaysFromCivil(2019, 12, 25)

InitWeek ==
    /\ FreshDisk /\ Idle
    /\ arg \in WeekBase..(WeekBase + WeekSpanDays)
    /\ pc = "start"
    /\ res = [w |-> Nullopt, wb |-> Nullopt]

DoIsoWeek ==
    /\ pc = "start"
    /\ res' = [res EXCEPT !.w = isoWeekFromDate(arg)]
    /\ pc' = "week"
    /\ UNCHANGED <<fsvars, clock, inv, added, arg>>

DoWeekBounds ==
    /\ pc = "week"
    /\ res' = [res EXCEPT !.wb = weekBounds(res.w.year, res.w.week)]
    /\ pc' = "bounds"
    /\ UNCHANGED <<fsvars, clock, inv, added, arg>>

NextWeek == DoIsoWeek \/ DoWeekBounds

SpecWeek == InitWeek /\ [][NextWeek]_vars

\* C5: for any date d with w = isoWeekFromDate(d), weekBounds(w.year, w.week)
\* is a Monday and the Sunday six days later with monday <= d <= sunday;
\* isoWeekFromDate(2023-01-01) = (2022, 52) and
\* weekBounds(2024, 1) = (2024-01-01, 2024-01-07).
C5_WeekRoundTrip ==
    pc = "bounds" =>
        /\ res.wb.monday <= arg /\ arg <= res.wb.sunday
        /\ WeekdayC(res.wb.monday) = 1
        /\ res.wb.sunday = res.wb.monday + 6
        /\ WeekdayC(res.wb.sunday) = 0
        /\ (arg = DaysFromCivil(2023, 1, 1) =>
                res.w.year = 2022 /\ res.w.week = 52)
        /\ (res.w.year = 2024 /\ res.w.week = 1 =>
                /\ res.wb.monday = DaysFromCivil(2024, 1, 1)
                /\ res.wb.sunday = DaysFromCivil(2024, 1, 7))

\* a date in a year-boundary week has been taken through both functions
C5_Witness ==
    /\ pc = "bounds"
    /\ arg = DaysFromCivil(2023, 1, 1)
    /\ res.wb.monday = DaysFromCivil(2022, 12, 26)

-----------------------------------------------------------------------------
(* Classification: loadRules on a rules file, then detectKind on a URL     *)

MaxRules == 3

RuleLinesIn ==
    {<<".", TAB, "A">>, <<"x", TAB, "B">>, <<"X", TAB, "D">>, <<"q", TAB, "a", "r", "t", "i", "c", "l", "e">>,
     <<"#", "c">>, <<"[", TAB, "C">>, <<"z">>, <<" ", "y", TAB, "E", " ">>, <<>>}

UrlsIn == {<<"x", "y", "z">>, <<"Y", "o">>, <<"w">>, <<"x", ".", "c", "o", "m", "/", "p">>}

RECURSIVE FilesOf(_, _)
\* the files of at most n lines drawn from Lines, each ended by a newline
FilesOf(Lines, n) ==
    IF n = 0 THEN {<<>>}
    ELSE LET shorter == FilesOf(Lines, n - 1)
         IN  shorter \cup {f \o l \o <<NL>> : f \in shorter, l \in Lines}

InitRules ==
    /\ dirs = {} /\ inbox = Absent /\ archives = NoFiles /\ outputs = NoFiles
    /\ Idle
    /\ rules \in {Absent} \cup {File(b) : b \in FilesOf(RuleLinesIn, MaxRules)}
    /\ arg \in UrlsIn
    /\ pc = "start"
    /\ res = <<>>

\* detectKind(url) in a process that has not loaded the rules yet
DoClassify ==
    /\ pc = "start"
    /\ rules' = ensureDefaultRulesFile(rules)
    /\ res' = detectKind(arg, loadRules(rules))
    /\ pc' = "classified"
    /\ UNCHANGED <<dirs, inbox, archives, outputs, clock, inv, added, arg>>

NextRules == DoClassify

SpecRules == InitRules /\ [][NextRules]_vars

\* the rule a line of rules.tsv states, if it states one
RuleLineOK(line) ==
    LET s == trim(line)
    IN  /\ s # <<>>
        /\ s[1] # "#"
        /\ Len(splitTabs(s)) >= 2
        /\ RegexValid(splitTabs(s)[1])

\* C8: detectKind returns the label of the first rule, in rule-file order,
\* whose pattern matches somewhere in the URL, whatever later rules match,
\* and "article" when no rule matches.
C8_FirstMatchWins ==
    pc = "classified" =>
        LET lines == GetLines(rules.data)
            M == {i \in 1..Len(lines) :
                    /\ RuleLineOK(lines[i])
                    /\ RegexSearch(arg, splitTabs(trim(lines[i]))[1])}
        IN  IF M = {} THEN res = StrArticle
            ELSE LET first == CHOOSE i \in M : \A j \in M : i <= j
                 IN  res = splitTabs(trim(lines[first]))[2]

\* the rules [(".", "A"), ("x", "B")] both match "xyz" and "A" is returned
C8_Witness ==
    /\ pc = "classified"
    /\ rules.data = <<".", TAB, "A", NL, "x", TAB, "B", NL>>
    /\ arg = <<"x", "y", "z">>
    /\ res = <<"A">>

-----------------------------------------------------------------------------
(* Loading: loadInbox on an inbox.tsv of arbitrary lines                   *)

MaxLines == 3

LoadLinesIn ==
    {<<"2", "0", "2", "4", "-", "0", "1", "-", "0", "1", TAB, "k", TAB, "u">>, <<"2", "0", "2", "4", "-", "0", "1", "-", "0", "2">>, <<"2", "0", "2", "3", "-", "0", "2", "-", "3", "0", TAB, "k", TAB, "u">>,
     <<"z", "z", TAB, "k">>, <<SP, "2", "0", "2", "4", "-", "0", "1", "-", "0", "3", SP, TAB, "k", TAB, "u", TAB, "t", TAB, "#", "a", TAB, "x">>, <<SP, TAB>>, <<>>, <<"2", "0", "2", "4", "-", "0", "1", "-", "0", TAB, "k">>}

InitLoad ==
    /\ dirs = {} /\ rules = Absent /\ archives = NoFiles /\ outputs = NoFiles
    /\ Idle
    /\ inbox \in {Absent} \cup {File(b) : b \in FilesOf(LoadLinesIn, MaxLines)}
    /\ arg = <<>>
    /\ pc = "start"
    /\ res = <<>>

DoLoad ==
    /\ pc = "start"
    /\ res' = loadInbox(inbox)
    /\ pc' = "loaded"
    /\ UNCHANGED <<fsvars, clock, inv, added, arg>>

NextLoad == DoLoad

SpecLoad == InitLoad /\ [][NextLoad]_vars

\* the date field of a line: its first column, trimmed as loadInbox reads it
DateField(line) == trim(SplitOn(line, TAB)[1])

GoodLine(line) == trim(line) # <<>> /\ parseISODate(DateField(line)).has

Column(line, k, default) ==
    IF Len(SplitOn(line, TAB)) >= k THEN SplitOn(line, TAB)[k] ELSE default

\* C9: loadInbox returns, in file order, exactly one record for each
\* non-blank line whose date field parses as a valid date, and none for any
\* other line: a line with a bad date never stops the lines around it from
\* being loaded.
C9_LoadSkipsBadRows ==
    pc = "loaded" =>
        LET good == SelectSeq(GetLines(inbox.data), GoodLine)
        IN  /\ Len(res) = Len(good)
            /\ \A i \in 1..Len(good) :
                  /\ res[i].date = parseISODate(DateField(good[i])).val
                  /\ res[i].kind = Column(good[i], 2, StrLink)
                  /\ res[i].url = Column(good[i], 3, <<>>)
                  /\ res[i].title = Column(good[i], 4, <<>>)
                  /\ res[i].tags = Column(good[i], 5, <<>>)

\* a bad-date line between two valid lines: exactly the two are loaded
C9_Witness ==
    /\ pc = "loaded"
    /\ Len(GetLines(inbox.data)) = 3
    /\ GoodLine(GetLines(inbox.data)[1])
    /\ ~GoodLine(GetLines(inbox.data)[2])
    /\ GetLines(inbox.data)[2] = <<"2", "0", "2", "3", "-", "0", "2", "-", "3", "0", TAB, "k", TAB, "u">>
    /\ GoodLine(GetLines(inbox.data)[3])
    /\ Len(res) = 2

-----------------------------------------------------------------------------
(* Filtering: filterByDateRange on loaded records                          *)

MaxRecs == 3
FilterDaySpan == 2
FilterBase == DaysFromCivil(2024, 1, 1)
FilterDays == FilterBase..(FilterBase + FilterDaySpan)

RecsIn ==
    {[date |-> d, kind |-> <<"k">>, url |-> u, title |-> <<>>, tags |-> <<>>] :
        d \in FilterDays, u \in {<<"u">>, <<"v">>}}

RECURSIVE SeqsUpTo(_, _)
\* the sequences of at most n elements of S
SeqsUpTo(S, n) ==
    IF n = 0 THEN {<<>>}
    ELSE LET shorter == SeqsUpTo(S, n - 1)
         IN  shorter \cup {Append(s, x) : s \in shorter, x \in S}

InitFilter ==
    /\ FreshDisk /\ Idle
    /\ arg \in [all : SeqsUpTo(RecsIn, MaxRecs), a : FilterDays, b : FilterDays]
    /\ pc = "start"
    /\ res = <<>>

DoFilter ==
    /\ pc = "start"
    /\ res' \in filterByDateRange(arg.all, arg.a, arg.b)
    /\ pc' = "filtered"
    /\ UNCHANGED <<fsvars, clock, inv, added, arg>>

NextFilter == DoFilter

SpecFilter == InitFilter /\ [][NextFilter]_vars

Count(s, x) == Cardinality({i \in 1..Len(s) : s[i] = x})

\* C10: filterByDateRange(records, start, end) returns exactly the input
\* records whose date d satisfies start <= d <= end, each as many times as
\* it occurs in the input: both bounds are inclusive, and a record one day
\* before start or one day after end is left out.
C10_FilterInclusive ==
    pc = "filtered" =>
        \A r \in RecsIn :
            Count(res, r) =
                IF arg.a <= r.date /\ r.date <= arg.b THEN Count(arg.all, r)
                ELSE 0

\* records dated start - 1, start (= end) and end + 1: only the middle one
\* is returned
C10_Witness ==
    /\ pc = "filtered"
    /\ arg.a = FilterBase + 1 /\ arg.b = FilterBase + 1
    /\ Len(arg.all) = 3
    /\ arg.all[1].date = arg.a - 1
    /\ arg.all[2].date = arg.a
    /\ arg.all[3].date = arg.b + 1
    /\ res = <<arg.all[2]>>

\* the records of s dated d, in their order in s
OnDay(s, d) == SelectSeq(s, LAMBDA r : r.date = d)

\* C12: the result of filterByDateRange is ascending by date, and records
\* of the same date keep the relative order they had in the loaded input.
C12_SortedStable ==
    pc = "filtered" =>
        /\ \A i \in 1..(Len(res) - 1) : res[i].date <= res[i + 1].date
        /\ \A d \in FilterDays :
              OnDay(res, d) =
                  OnDay(SelectSeq(arg.all, LAMBDA r : InRange(r, arg.a, arg.b)), d)

-----------------------------------------------------------------------------
(* The commands: main, cmd_add, cmd_digest, cmd_clear_inbox, cmd_list      *)
(*                                                                         *)
(* A process runs from start to exit in one step, except clear-inbox,      *)
(* whose file operations are separate steps so that a crash between them   *)
(* is a state.  templates/header.md is never written by the program and    *)
(* is absent here.                                                          *)

\* midnight of the day the model starts on, in seconds since 1970
ClockEpoch == DaysFromCivil(2024, 1, 3) * 86400

\* floor<days>(system_clock::now())
Today == (ClockEpoch + clock) \div 86400

todayISO == fmtDate(Today)

\* what main leaves of inbox.tsv before the command runs
SetupInbox == IF inbox.exists THEN inbox ELSE File(<<>>)

\* the values *opt may yield: reading an empty optional is undefined, and
\* the value read is whatever the storage holds
Deref(opt) == IF opt.has THEN {opt.val} ELSE {0, Today}

\* the records cmd_add may build
AddRecs(a) ==
    {[date  |-> d,
      kind  |-> detectKind(a.url, loadRules(rules)),
      url   |-> a.url,
      title |-> a.addTitle,
      tags  |-> normalizeTagsForStorage(a.addTags)] :
        d \in Deref(IF a.addDateISO.has THEN parseISODate(a.addDateISO.val)
                     ELSE parseISODate(todayISO))}

\* the process has ended with this exit status
Ended(argv, code, rec, out) ==
    [n |-> inv.n + 1, argv |-> argv, exit |-> code, pre |-> Disk, rec |-> rec,
     snap |-> <<>>, dest |-> NoDest, out |-> out]

\* main with the add command: appendInbox opens inbox.tsv for append
\* (appendable) or fails to
CmdAdd(argv, a) ==
    \E r \in AddRecs(a), appendable \in BOOLEAN :
        /\ dirs' = dirs \cup MainDirs
        /\ rules' = ensureDefaultRulesFile(rules)
        /\ IF appendable
           THEN /\ inbox' = File(SetupInbox.data \o RecLine(r))
                /\ added' = Append(added, RecLine(r))
                /\ inv' = Ended(argv, 0, Some(r), <<>>)
           ELSE /\ inbox' = SetupInbox
                /\ added' = added
                /\ inv' = Ended(argv, 1, Nullopt, <<>>)
        /\ pc' = "idle"
        /\ UNCHANGED <<archives, outputs, clock, arg, res>>

StrTo == <<SP, "t", "o", SP>>
StrUTo == <<"_", "t", "o", "_">>
ExtMd == <<".", "m", "d">>
ExtHtml == <<".", "h", "t", "m", "l">>

computeRange(a) ==
    IF a.start.has /\ a.end.has
    THEN [label |-> fmtDate(a.start.val) \o StrTo \o fmtDate(a.end.val),
          lo |-> a.start.val, hi |-> a.end.val]
    ELSE IF a.week.has
    THEN LET wb == weekBounds(a.week.val[1], a.week.val[2])
         IN  [label |-> fmtISOWeek(wb.year, wb.week),
              lo |-> wb.monday, hi |-> wb.sunday]
    ELSE LET w == isoWeekFromDate(Today)
         IN  [label |-> fmtISOWeek(w.year, w.week),
              lo |-> w.monday, hi |-> w.sunday]

\* s with every occurrence of from (scanning left to right) replaced by to
RECURSIVE ReplaceAll(_, _, _)
ReplaceAll(s, from, to) ==
    IF Len(s) < Len(from) THEN s
    ELSE IF OccursAt(from, s, 0)
         THEN to \o ReplaceAll(SubSeq(s, Len(from) + 1, Len(s)), from, to)
         ELSE <<Head(s)>> \o ReplaceAll(Tail(s), from, to)

IsAlnum(c) ==
    IsDigit(c) \/ \E j \in 1..26 : c = Lower[j] \/ c = Upper[j]

safeBaseFromRangeLabel(label) ==
    LET s == ReplaceAll(label, StrTo, StrUTo)
        m == [i \in 1..Len(s) |->
                IF IsAlnum(s[i]) \/ s[i] = "-" \/ s[i] = "_" THEN s[i]
                ELSE "-"]
    IN  IF m = <<>> THEN <<"d", "i", "g", "e", "s", "t">> ELSE m

defaultDigestPath(rangeLabel, html) ==
    DirDigests \o <<"/">> \o safeBaseFromRangeLabel(rangeLabel)
        \o (IF html THEN ExtHtml ELSE ExtMd)

\* fs::path::parent_path of a relative path: what precedes the last "/"
ParentPath(p) ==
    LET slashes == {i \in 1..Len(p) : p[i] = "/"}
    IN  IF slashes = {} THEN <<>>
        ELSE SubSeq(p, 1, (CHOOSE i \in slashes : \A j \in slashes : j <= i) - 1)

\* main with the digest command.  The digest written is determined by the
\* rows, the range label and the options; it is kept as those.  The open of
\* the output file succeeds (writable) or fails.
CmdDigest(argv, a) ==
    LET range == computeRange(a)
        path  == IF a.outPath = <<>> THEN defaultDigestPath(range.label, a.pd)
                 ELSE a.outPath
    IN  \E rows \in filterByDateRange(loadInbox(SetupInbox), range.lo, range.hi),
           writable \in BOOLEAN :
        LET digest == [html |-> a.pd, groupTags |-> a.groupTags,
                       tagsOnly |-> a.tagsOnly, label |-> range.label,
                       rows |-> rows]
        IN  /\ rules' = ensureDefaultRulesFile(rules)
            /\ inbox' = SetupInbox
            /\ IF a.outPath = StrDash
               THEN /\ dirs' = dirs \cup MainDirs
                    /\ outputs' = outputs
                    /\ inv' = Ended(argv, 0, Nullopt, digest)
               ELSE IF ParentPath(path) = <<>>
               \* create_directories("") throws filesystem_error
               THEN /\ dirs' = dirs \cup MainDirs
                    /\ outputs' = outputs
                    /\ inv' = Ended(argv, ExitAbort, Nullopt, <<>>)
               ELSE IF ~writable
               THEN /\ dirs' = dirs \cup MainDirs \cup {ParentPath(path)}
                    /\ outputs' = outputs
                    /\ inv' = Ended(argv, 2, Nullopt, <<>>)
               ELSE /\ dirs' = dirs \cup MainDirs \cup {ParentPath(path)}
                    /\ outputs' = WithFile(outputs, path, digest)
                    /\ inv' = Ended(argv, 0, Nullopt, <<>>)
            /\ pc' = "idle"
            /\ UNCHANGED <<archives, clock, added, arg, res>>

\* sys_days::min() and sys_days::max(): below and above every date
SysDaysMax == 2147483647
SysDaysMin == 0 - SysDaysMax

\* main with the list command: the rows printed are kept in inv.out
CmdList(argv, a) ==
    LET all == loadInbox(SetupInbox)
        sel == IF a.since.has \/ a.until.has
               THEN filterByDateRange(all,
                        IF a.since.has THEN a.since.val ELSE SysDaysMin,
                        IF a.until.has THEN a.until.val ELSE SysDaysMax)
               ELSE {all}
    IN  \E rows \in sel :
            /\ dirs' = dirs \cup MainDirs
            /\ rules' = ensureDefaultRulesFile(rules)
            /\ inbox' = SetupInbox
            /\ inv' = Ended(argv, 0, Nullopt,
                    IF a.limit.has /\ a.limit.val < Len(rows)
                    THEN SubSeq(rows, 1, a.limit.val) ELSE rows)
            /\ pc' = "idle"
            /\ UNCHANGED <<archives, outputs, clock, added, arg, res>>

\* main with the clear-inbox command, up to the choice of the destination
\* (the timestamp has the granularity of a second).  main has created
\* inbox.tsv, so cmd_clear_inbox finds it.
CmdClearStart(argv, a) ==
    LET arch == IF a.archiveDir = <<>> THEN DirArchive ELSE a.archiveDir
    IN  /\ dirs' = dirs \cup MainDirs \cup {arch}
        /\ rules' = ensureDefaultRulesFile(rules)
        /\ inbox' = SetupInbox
        /\ inv' = [n |-> inv.n + 1, argv |-> argv, exit |-> -1, pre |-> Disk,
                   rec |-> Nullopt, snap |-> SetupInbox.data,
                   dest |-> [dir |-> arch, ts |-> clock], out |-> <<>>]
        /\ pc' = "rename"
        /\ UNCHANGED <<archives, outputs, clock, added, arg, res>>

\* one process: parseCLI, then main and the command
Run(argv) ==
    /\ pc = "idle"
    /\ LET p == parseCLI(argv)
       IN  IF p.done
           THEN /\ inv' = Ended(argv, p.code, Nullopt, <<>>)
                /\ pc' = "idle"
                /\ UNCHANGED <<fsvars, clock, added, arg, res>>
           ELSE IF p.args.cmd = CmdAddStr THEN CmdAdd(argv, p.args)
           ELSE IF p.args.cmd = CmdDigestStr THEN CmdDigest(argv, p.args)
           ELSE IF p.args.cmd = CmdClearStr THEN CmdClearStart(argv, p.args)
           ELSE CmdList(argv, p.args)

\* fs::rename(inbox, dest, ec): moves the file, replacing dest if it
\* exists, or fails (another device) and leaves both as they were
ClearRename ==
    /\ pc = "rename"
    /\ \E moved \in BOOLEAN :
         IF moved
         THEN /\ archives' = WithFile(archives, inv.dest, inbox.data)
              /\ inbox' = Absent
              /\ pc' = "truncate"
         ELSE /\ pc' = "copy"
              /\ UNCHANGED <<archives, inbox>>
    /\ UNCHANGED <<dirs, rules, outputs, clock, inv, added, arg, res>>

\* a mutant: a failed copy does not end the run
ClearCopyNoAbort ==
    /\ pc = "copy"
    /\ \E copied \in BOOLEAN :
         IF copied
         THEN /\ archives' = WithFile(archives, inv.dest, inbox.data)
              /\ pc' = "truncate"
              /\ UNCHANGED inv
         ELSE /\ pc' = "truncate"
              /\ UNCHANGED <<archives, inv>>
    /\ UNCHANGED <<dirs, inbox, rules, outputs, clock, added, arg, res>>

\* fs::copy_file(inbox, dest, overwrite_existing, ec): on failure the
\* process returns 2
ClearCopy ==
    /\ pc = "copy"
    /\ \E copied \in BOOLEAN :
         IF copied
         THEN /\ archives' = WithFile(archives, inv.dest, inbox.data)
              /\ pc' = "truncate"
              /\ UNCHANGED inv
         ELSE /\ pc' = "idle"
              /\ inv' = [inv EXCEPT !.exit = 2]
              /\ UNCHANGED archives
    /\ UNCHANGED <<dirs, inbox, rules, outputs, clock, added, arg, res>>

\* ofstream o(inboxPath(), ios::trunc), then return 0
ClearTruncate ==
    /\ pc = "truncate"
    /\ inbox' = File(<<>>)
    /\ inv' = [inv EXCEPT !.exit = 0]
    /\ pc' = "idle"
    /\ UNCHANGED <<dirs, rules, archives, outputs, clock, added, arg, res>>

\* exit status of a killed process (128 + SIGKILL)
ExitKilled == 128 + 9

\* the process dies between two steps of clear-inbox
Crash ==
    /\ pc \in {"rename", "copy", "truncate"}
    /\ pc' = "idle"
    /\ inv' = [inv EXCEPT !.exit = ExitKilled]
    /\ UNCHANGED <<fsvars, clock, added, arg, res>>

MaxClock == 1

\* a second passes
Tick ==
    /\ clock < MaxClock
    /\ clock' = clock + 1
    /\ UNCHANGED <<fsvars, pc, inv, added, arg, res>>

-----------------------------------------------------------------------------
(* The store over its life: a sequence of runs                             *)

MaxRuns == 4

ArgvLife ==
    {<<CmdAddStr, <<"a", ".", "i", "o">>>>,
     <<CmdAddStr, <<"x", ".", "c", "o", "m", "/", "b">>, <<"t">>>>,
     <<CmdListStr>>,
     <<CmdDigestStr, OptO, StrDash>>,
     <<CmdClearStr>>,
     <<CmdClearStr, OptArchiveDir, <<"d">>>>}

Init ==
    /\ FreshDisk
    /\ Idle
    /\ pc = "idle"
    /\ arg = <<>>
    /\ res = <<>>

Invoke == \E argv \in ArgvLife : inv.n < MaxRuns /\ Run(argv)

Next ==
    \/ Invoke
    \/ ClearRename
    \/ ClearCopy
    \/ ClearTruncate
    \/ Crash
    \/ Tick

Spec == Init /\ [][Next]_vars

\* how many lines of the file are the line l (l ends with its newline)
LinesIn(f, l) ==
    IF ~f.exists THEN 0
    ELSE Cardinality({i \in 1..Len(GetLines(f.data)) :
                        GetLines(f.data)[i] \o <<NL>> = l})

RECURSIVE SumOver(_, _)
SumOver(S, f) ==
    IF S = {} THEN 0
    ELSE LET x == CHOOSE y \in S : TRUE
         IN  f[x] + SumOver(S \ {x}, f)

\* how many copies of the line l the store and the archive files hold
Copies(l) ==
    LinesIn(inbox, l)
        + SumOver(DOMAIN archives,
                  [p \in DOMAIN archives |-> LinesIn(File(archives[p]), l)])

\* C1: after any sequence of add, list, digest and clear-inbox runs, with
\* any archive directory and however close in time two clear-inbox runs
\* are, every record add has appended is in the store or in an archive file.
C1_NoRecordLost ==
    pc = "idle" =>
        \A i \in 1..Len(added) : Copies(added[i]) >= Count(added, added[i])

InboxHolds(bytes) == inbox.exists /\ inbox.data = bytes

DestHolds(bytes) ==
    inv.dest \in DOMAIN archives /\ archives[inv.dest] = bytes

\* C2: in a clear-inbox run, at every step (and so after a crash between
\* steps) the whole content the store had is in the store or at the
\* destination; a run in which the move and the copy both fail exits with
\* 2 and leaves the store as it was; the store is empty only once the
\* destination holds its content.
C2_ClearedOnlyAfterCopy ==
    inv.dest # NoDest =>
        /\ InboxHolds(inv.snap) \/ DestHolds(inv.snap)
        /\ (inv.exit = 2 => InboxHolds(inv.snap) /\ pc = "idle")
        /\ (pc = "truncate" \/ inv.exit = 0 => DestHolds(inv.snap))
        /\ (pc = "copy" => InboxHolds(inv.snap))

\* the move has failed, the copy has succeeded and the store, which holds
\* records, has not been truncated yet: the records are in two places
C2_Witness ==
    /\ pc = "truncate"
    /\ inv.snap # <<>>
    /\ InboxHolds(inv.snap)
    /\ DestHolds(inv.snap)

-----------------------------------------------------------------------------
(* One run on a given disk, with arbitrary arguments                       *)

MaxArgs == 3

StrBogus == <<"-", "-", "b", "o", "g", "u", "s">>

AddTokensIn ==
    {<<"a", ".", "i", "o">>, OptTitle, OptDate, <<"2", "0", "2", "4", "-", "0", "1", "-", "0", "1">>, <<"2", "0", "2", "4", "-", "0", "2", "-", "3", "0">>, <<"0", "9", "9", "9", "-", "0", "1", "-", "0", "1">>,
     StrBogus, <<"a">>, <<"a", SP, "b">>, <<"t", TAB, "x">>, <<"#", "a">>}

DigestTokensIn ==
    {OptGt, OptPd, OptWeek, <<"2", "0", "2", "4", "-", "W", "0", "1">>, <<"2", "0", "2", "4", "-", "W", "5", "4">>, OptStart, OptEnd,
     <<"2", "0", "2", "4", "-", "0", "1", "-", "0", "1">>, <<"2", "0", "2", "4", "-", "0", "2", "-", "3", "0">>, OptO, StrDash, StrBogus}

ClearTokensIn == {OptArchiveDir, <<"d">>, StrBogus}

ListTokensIn ==
    {OptLimit, <<"1">>, <<"x">>, OptSince, OptUntil, <<"2", "0", "2", "4", "-", "0", "1", "-", "0", "1">>, <<"2", "0", "2", "4", "-", "0", "2", "-", "3", "0">>, StrBogus}

ArgvCLI ==
    {<<>>, <<<<"f", "r", "o", "b">>>>, <<CmdHelpStr>>}
        \cup {<<CmdAddStr>> \o r : r \in SeqsUpTo(AddTokensIn, MaxArgs)}
        \cup {<<CmdDigestStr>> \o r : r \in SeqsUpTo(DigestTokensIn, MaxArgs)}
        \cup {<<CmdClearStr>> \o r : r \in SeqsUpTo(ClearTokensIn, MaxArgs)}
        \cup {<<CmdListStr>> \o r : r \in SeqsUpTo(ListTokensIn, MaxArgs)}

\* a disk the program has been used on, with rules the user has edited
UsedDisk ==
    /\ dirs = MainDirs
    /\ inbox = File(<<"2", "0", "2", "4", "-", "0", "1", "-", "0", "2", TAB, "k", TAB, "u", TAB, "t", TAB, "#", "a", NL, "2", "0", "2", "4", "-", "0", "1", "-", "0", "1", TAB, "k", TAB, "v", TAB, TAB, NL>>)
    /\ rules = File(<<"x", TAB, "B", NL>>)
    /\ archives = NoFiles
    /\ outputs = NoFiles

InitCLI ==
    /\ FreshDisk \/ UsedDisk
    /\ Idle
    /\ pc = "idle"
    /\ arg = <<>>
    /\ res = <<>>

InvokeCLI == \E argv \in ArgvCLI : inv.n = 0 /\ Run(argv)

\* the run takes place within one second of the clock
NextCLI ==
    \/ InvokeCLI
    \/ ClearRename
    \/ ClearCopy
    \/ ClearTruncate
    \/ Crash

SpecCLI == InitCLI /\ [][NextCLI]_vars

\* the bytes the last add wrote, without the newline that ends them
LastWritten == SubSeq(added[Len(added)], 1, Len(added[Len(added)]) - 1)

HasTabOrNewline(s) == \E i \in 1..Len(s) : s[i] \in {TAB, NL}

\* C3: every line that add writes has exactly 5 tab-separated fields, in
\* the order date, kind, url, title, tags, and no field holds a tab or a
\* newline, whatever url, --title value and tag arguments are given.
C3_FiveCleanFields ==
    (pc = "idle" /\ inv.rec.has) =>
        LET r == inv.rec.val
            f == SplitOn(LastWritten, TAB)
        IN  /\ Len(f) = 5
            /\ f = <<fmtDate(r.date), r.kind, r.url, r.title, r.tags>>
            /\ \A k \in 1..Len(f) : ~HasTabOrNewline(f[k])

\* does s (an option of the command line) start like an option
LooksLikeOption(s) == Len(s) >= 2 /\ s[1] = "-"

\* the arguments from argv[i] on hold a malformed date, a malformed week or
\* an unknown option; opts are the options of the command that take a
\* value, flags those that take none
RECURSIVE InvalidFrom(_, _, _, _, _)
InvalidFrom(argv, i, opts, flags, wordsAllowed) ==
    IF i > Len(argv) THEN FALSE
    ELSE IF argv[i] \in opts THEN
        IF i + 1 > Len(argv) THEN FALSE
        ELSE \/ /\ argv[i] \in {OptDate, OptStart, OptEnd, OptSince, OptUntil}
                /\ ~MatchesDateShape(argv[i + 1])
             \/ /\ argv[i] \in {OptDate, OptStart, OptEnd, OptSince, OptUntil}
                /\ MatchesDateShape(argv[i + 1])
                /\ LET y == stoi(SubSeq(argv[i + 1], 1, 4))
                       m == stoi(SubSeq(argv[i + 1], 6, 7))
                       d == stoi(SubSeq(argv[i + 1], 9, 10))
                   IN  m \notin 1..12 \/ d \notin 1..31
                          \/ CivilFromDays(DaysFromCivil(y, m, d)).day # d
             \/ argv[i] = OptWeek /\ ~parseISOWeekStr(argv[i + 1]).has
             \/ InvalidFrom(argv, i + 2, opts, flags, wordsAllowed)
    ELSE IF argv[i] \in flags THEN
        InvalidFrom(argv, i + 1, opts, flags, wordsAllowed)
    ELSE IF LooksLikeOption(argv[i]) \/ ~wordsAllowed THEN TRUE
    ELSE InvalidFrom(argv, i + 1, opts, flags, wordsAllowed)

\* InvalidInput of the command line argv
InvalidInput(argv) ==
    IF Len(argv) < 2 THEN FALSE
    ELSE IF argv[1] = CmdAddStr
        THEN InvalidFrom(argv, 3, {OptTitle, OptDate}, {}, TRUE)
    ELSE IF argv[1] = CmdDigestStr
        THEN InvalidFrom(argv, 2, {OptWeek, OptStart, OptEnd, OptO},
                {OptGt, OptGroupTags, OptTagsOnly, OptPd, OptNoHeader}, FALSE)
    ELSE IF argv[1] = CmdClearStr
        THEN InvalidFrom(argv, 2, {OptArchiveDir}, {}, FALSE)
    ELSE IF argv[1] = CmdListStr
        THEN InvalidFrom(argv, 2, {OptLimit, OptSince, OptUntil}, {}, FALSE)
    ELSE FALSE

\* C6: a run whose arguments hold a malformed date, a malformed --week
\* string or an unknown option, for any of add, digest, clear-inbox and
\* list, exits non-zero and leaves the store, the rules file and the
\* directories exactly as they were.
C6_InvalidInputNoChange ==
    (inv.n > 0 /\ InvalidInput(inv.argv)) =>
        /\ pc = "idle"
        /\ inv.exit # 0
        /\ Disk = inv.pre

\* the tokens of the tag arguments, in command-line order
RECURSIVE TokensOf(_)
TokensOf(tagArgs) ==
    IF tagArgs = <<>> THEN <<>>
    ELSE splitTags(Head(tagArgs)) \o TokensOf(Tail(tagArgs))

WithHash(tok) == IF tok[1] = "#" THEN tok ELSE <<"#">> \o tok

\* s without the elements that occurred earlier in it
FirstOccurrences(s) ==
    SelectSeq([i \in 1..Len(s) |-> [at |-> i, v |-> s[i]]],
              LAMBDA e : \A j \in 1..(e.at - 1) : s[j] # e.v)

\* C7: the tags field add stores, split on whitespace, is a sequence of
\* tokens that each begin with "#", holds no token twice, and lists the
\* tokens in the order they first appeared in the tag arguments, also when
\* an argument itself holds whitespace.
C7_StoredTagsNormalized ==
    (pc = "idle" /\ inv.rec.has) =>
        LET toks == splitTags(inv.rec.val.tags)
            given == TokensOf(parseCLI(inv.argv).args.addTags)
            want == FirstOccurrences([i \in 1..Len(given) |-> WithHash(given[i])])
        IN  /\ \A i \in 1..Len(toks) : toks[i][1] = "#"
            /\ \A i, j \in 1..Len(toks) : toks[i] = toks[j] => i = j
            /\ toks = [i \in 1..Len(want) |-> want[i].v]

-----------------------------------------------------------------------------
(* Grouped rendering: renderGroupedByTagsMarkdown on filtered rows         *)

MaxGroupRecs == 3

GroupRecsIn ==
    {[date |-> FilterBase, kind |-> <<"k">>, url |-> <<"u">>,
      title |-> <<>>, tags |-> <<>>],
     [date |-> FilterBase, kind |-> <<"k">>, url |-> <<"u">>,
      title |-> <<>>, tags |-> <<"#", "b">>],
     [date |-> FilterBase, kind |-> <<"k">>, url |-> <<"h", "t", "t", "p", ":", "/", "/", "v", "/", "p">>,
      title |-> <<"t">>, tags |-> <<"#", "a", SP, "#", "b">>],
     [date |-> FilterBase, kind |-> <<"k">>, url |-> <<"v">>,
      title |-> <<>>, tags |-> <<"#", "a", SP, "#", "A">>],
     [date |-> FilterBase, kind |-> <<"k">>, url |-> <<"w", "/", "x">>,
      title |-> <<>>, tags |-> <<"#", "N", "A", "S", "A", SP, "#", "b">>],
     [date |-> FilterBase, kind |-> <<"k">>, url |-> <<"u">>,
      title |-> <<>>, tags |-> <<"b">>]}

InitGroup ==
    /\ FreshDisk /\ Idle
    /\ arg \in SeqsUpTo(GroupRecsIn, MaxGroupRecs)
    /\ pc = "start"
    /\ res = <<>>

DoGroup ==
    /\ pc = "start"
    /\ res' = renderGroupedByTagsMarkdown(arg)
    /\ pc' = "grouped"
    /\ UNCHANGED <<fsvars, clock, inv, added, arg>>

NextGroup == DoGroup

SpecGroup == InitGroup /\ [][NextGroup]_vars

\* the display tags the record carries
DisplayTagsOf(r) ==
    {normalizeTagDisplayOne(splitTags(r.tags)[k]) :
        k \in 1..Len(splitTags(r.tags))}

AllDisplayTags(rows) == UNION {DisplayTagsOf(rows[i]) : i \in 1..Len(rows)}

\* the tags of T in lexicographic order
RECURSIVE InOrder(_)
InOrder(T) ==
    IF T = {} THEN <<>>
    ELSE LET least == CHOOSE x \in T : \A y \in T : x = y \/ StrLess(x, y)
         IN  <<least>> \o InOrder(T \ {least})

\* one heading, each record that carries the tag once in input order, and
\* a blank line, for each heading left
RECURSIVE GroupLines(_, _)
GroupLines(rows, heads) ==
    IF heads = <<>> THEN <<>>
    ELSE LET carriers == SelectSeq([i \in 1..Len(rows) |-> i],
                            LAMBDA i : Head(heads) \in DisplayTagsOf(rows[i]))
         IN  <<StrH3 \o Head(heads)>>
                \o [k \in 1..Len(carriers) |-> recLineMarkdown(rows[carriers[k]])]
                \o <<<<>>>>
                \o GroupLines(rows, Tail(heads))

\* C11: the grouped rendering has one heading per distinct display tag, the
\* headings in lexicographic order, under each heading exactly the records
\* that carry the tag, each once and in the order of the filtered input,
\* and the "no tags" placeholder instead when no record carries a tag.
C11_GroupedByTag ==
    pc = "grouped" =>
        GetLines(res) =
            <<StrByTag, <<>>>>
                \o GroupLines(arg, InOrder(AllDisplayTags(arg)))
                \o (IF AllDisplayTags(arg) = {} THEN <<StrNoTags>> ELSE <<>>)

-----------------------------------------------------------------------------
(* HTML conversion: mdToHtml on a markdown document                        *)

MaxHtmlLines == 3

HtmlLinesIn ==
    {<<"#", SP, "T">>,
     <<"#", "#", SP, "B", "y", SP, "T", "a", "g">>,
     <<"#", "#", "#", SP, "#", "A">>,
     <<"-", SP, "[", "v", "]", "(", "h", "t", "t", "p", ":", "/", "/", "v", "/", "p", ")", SP, "~", SP, "*", "k", "*">>,
     <<"-", SP, "x">>,
     <<SP, SP, "-", SP, "y", SP>>,
     <<>>,
     <<"t", "e", "x", "t", SP, "*", "e", "m", "*">>,
     <<"#">>}

RECURSIVE JoinLines(_)
JoinLines(ls) ==
    IF ls = <<>> THEN <<>> ELSE Head(ls) \o <<NL>> \o JoinLines(Tail(ls))

InitHtml ==
    /\ FreshDisk /\ Idle
    /\ arg \in {JoinLines(ls) : ls \in SeqsUpTo(HtmlLinesIn, MaxHtmlLines)}
    /\ pc = "start"
    /\ res = <<>>

DoHtml ==
    /\ pc = "start"
    /\ res' = mdToHtml(arg)
    /\ pc' = "converted"
    /\ UNCHANGED <<fsvars, clock, inv, added, arg>>

NextHtml == DoHtml

SpecHtml == InitHtml /\ [][NextHtml]_vars

TagUl == <<"<", "u", "l", ">">>
TagUlEnd == <<"<", "/", "u", "l", ">">>
TagLi == <<"<", "l", "i", ">">>
BlockTags == {<<"<", "h", "1", ">">>, <<"<", "h", "2", ">">>, <<"<", "h", "3", ">">>, <<"<", "p", ">">>}

\* the list and block tags of a document, in the order they occur
HtmlTags(html) ==
    LET names == {TagUl, TagUlEnd, TagLi} \cup BlockTags
        pos == SortedSeq({i \in 0..(Len(html) - 1) :
                            \E t \in names : OccursAt(t, html, i)})
    IN  [k \in 1..Len(pos) |-> CHOOSE t \in names : OccursAt(t, html, pos[k])]

IsBullet(line) == OccursAt(<<"-", SP>>, trim(line), 0)

\* the opening tag of the block a line that is no bullet turns into
BlockTagOf(line) ==
    IF OccursAt(<<"#", SP>>, trim(line), 0) THEN <<"<", "h", "1", ">">>
    ELSE IF OccursAt(<<"#", "#", SP>>, trim(line), 0) THEN <<"<", "h", "2", ">">>
    ELSE IF OccursAt(<<"#", "#", "#", SP>>, trim(line), 0) THEN <<"<", "h", "3", ">">>
    ELSE <<"<", "p", ">">>

\* the tags of lines i.. when every maximal run of bullet lines is wrapped
\* in one list
RECURSIVE TagsFrom(_, _)
TagsFrom(lines, i) ==
    IF i > Len(lines) THEN <<>>
    ELSE (IF ~IsBullet(lines[i]) THEN <<BlockTagOf(lines[i])>>
          ELSE (IF i = 1 \/ ~IsBullet(lines[i - 1]) THEN <<TagUl>> ELSE <<>>)
                 \o <<TagLi>>
                 \o (IF i = Len(lines) \/ ~IsBullet(lines[i + 1])
                     THEN <<TagUlEnd>> ELSE <<>>))
            \o TagsFrom(lines, i + 1)

\* the number of lists open after the first k tags
OpenAfter(tags, k) ==
    Cardinality({n \in 1..k : tags[n] = TagUl})
        - Cardinality({n \in 1..k : tags[n] = TagUlEnd})

\* C13: in the output of mdToHtml the list tags are balanced and never
\* nested, every list is closed before the next heading or paragraph and
\* before the end of the document, list items occur only inside an open
\* list, and each maximal run of consecutive bullet lines is wrapped in
\* exactly one list.
C13_ListsWellFormed ==
    pc = "converted" =>
        LET tags == HtmlTags(res)
        IN  /\ \A k \in 1..Len(tags) :
                  /\ OpenAfter(tags, k) \in {0, 1}
                  /\ tags[k] = TagLi => OpenAfter(tags, k) = 1
                  /\ tags[k] \in BlockTags => OpenAfter(tags, k) = 0
            /\ OpenAfter(tags, Len(tags)) = 0
            /\ tags = TagsFrom(GetLines(arg), 1)

\* two bullet lines and then a heading or paragraph were converted: one list
\* holds both items and is closed before the block
C13_Witness ==
    /\ pc = "converted"
    /\ Len(GetLines(arg)) = 3
    /\ IsBullet(GetLines(arg)[1]) /\ IsBullet(GetLines(arg)[2])
    /\ ~IsBullet(GetLines(arg)[3])
    /\ SubSeq(HtmlTags(res), 1, 4) = <<TagUl, TagLi, TagLi, TagUlEnd>>

====
